---- MODULE Spec2Model ----
(***************************************************************************)
(* State-machine model of wialon_api_client/client.py: the WialonClient    *)
(* session (token, base_url, _sid), the request primitive _call_api, the   *)
(* operations login / logout / ensure_sid / get_unit_ids /                 *)
(* get_unit_mileage and the context-manager protocol __enter__/__exit__.   *)
(* The remote server is the environment: every request is answered by a    *)
(* response drawn from a small set covering transport failure, a body that *)
(* is not JSON, a JSON body that is not an object, and JSON objects with   *)
(* any combination of the keys the code inspects.                          *)
(***************************************************************************)
EXTENDS Integers, Sequences, FiniteSets, TLC

VARIABLES
    constructed,       \* TRUE once WialonClient.__init__ has returned
    token,             \* self.token
    base_url,          \* self.base_url
    sid,               \* self._sid
    scope,             \* "out" | "in": inside a `with client:` block or not
    jsonErrIsReqExc,   \* build: response.json() raises a RequestException subclass
    last,              \* record of the most recent operation (history)
    prev,              \* summary of the operation before it, if a login (history)
    run                \* the command-line run of __main__: where it is, what it did

vars == <<constructed, token, base_url, sid, scope, jsonErrIsReqExc, last, prev, run>>

----------------------------------------------------------------------------
(* Bounds of the model *)

\* longest `items` list the server returns
MaxItems == 2

----------------------------------------------------------------------------
(* Python values *)

None == "None"
DEFAULT_BASE_URL == "https://hst-api.wialon.com/wialon/ajax.html"

\* Python truthiness of the values _sid / token / base_url can take
Truthy(x) == x \notin {None, ""}

EmptyDict == <<>>

\* dict with an optional key k taking one of the values vs
Opt(k, vs) == {EmptyDict} \cup {(k :> v) : v \in vs}

\* all sequences over S of length 0..n
RECURSIVE SeqsUpTo(_, _)
SeqsUpTo(S, n) ==
    IF n = 0 THEN {<<>>}
    ELSE LET shorter == SeqsUpTo(S, n - 1)
         IN  shorter \cup {Append(q, e) : q \in {p \in shorter : Len(p) = n - 1}, e \in S}

----------------------------------------------------------------------------
(* Inputs: constructor arguments and server responses *)

Tokens == {None, "", "tok"}
BaseUrls == {None, "", "http://alt"}
Masks == {"*"}
UnitIds == {1, 2}

ErrCodes == {0, 1}
Reasons == {"why"}
Eids == {"", "s1", "s2"}

\* records of `items`: two well-formed ones and one lacking `nm`
ItemRecords == {("nm" :> "A") @@ ("id" :> 1), ("nm" :> "B") @@ ("id" :> 2), ("id" :> 3)}
ItemLists == SeqsUpTo(ItemRecords, MaxItems)

\* values of cnm_km: a JSON number, a numeric string, a non-numeric string
Counters == {[t |-> "num", v |-> 12], [t |-> "str", v |-> 12], [t |-> "bad", v |-> 0]}
ItemDicts == {EmptyDict} \cup {("cnm_km" :> c) : c \in Counters}

\* the failure envelope {error: code, reason?: string}
ErrorPart == {a @@ b : a \in {("error" :> c) : c \in ErrCodes}, b \in Opt("reason", Reasons)}

\* bodies of one service: every payload without `error`, and every failure
\* envelope alone or together with a payload key
WithErrors(payloads, extra) == payloads \cup {e @@ p : e \in ErrorPart, p \in {EmptyDict, extra}}

LoginBodies == WithErrors(Opt("eid", Eids), ("eid" :> "s1"))
LogoutBodies == WithErrors({EmptyDict}, EmptyDict)
SearchItemsBodies == WithErrors(Opt("items", ItemLists), ("items" :> <<>>))
SearchItemBodies == WithErrors(Opt("item", ItemDicts), ("item" :> EmptyDict))

Bodies(service) ==
    CASE service = "token/login" -> LoginBodies
      [] service = "core/logout" -> LogoutBodies
      [] service = "core/search_items" -> SearchItemsBodies
      [] service = "core/search_item" -> SearchItemBodies

\* what requests.get / raise_for_status / response.json() can produce
Responses(service) ==
    {[kind |-> "transport", text |-> "", body |-> EmptyDict],
     [kind |-> "nonjson", text |-> "<html>", body |-> EmptyDict],
     [kind |-> "nonobj", text |-> "", body |-> EmptyDict]}
    \cup {[kind |-> "json", text |-> "", body |-> b] : b \in Bodies(service)}

----------------------------------------------------------------------------
(* Outcomes of a call: a returned value or a raised exception *)

NoCode == -1
NoExc == [type |-> "none", service |-> "", code |-> NoCode, reason |-> "", text |-> ""]

Exc(type, service, code, reason, text) ==
    [type |-> type, service |-> service, code |-> code, reason |-> reason, text |-> text]

Ret(v) == [kind |-> "ret", val |-> v, exc |-> NoExc]
Raise(e) == [kind |-> "raise", val |-> None, exc |-> e]

\* class hierarchy of lines 76-90: subclasses of WialonAPIError
WialonAPIErrors == {"WialonAPIError", "WialonAuthError", "WialonRequestError", "WialonDataError"}

\* result of a method: the session id it leaves, the HTTP exchanges it made
\* (the query sent and the response received, in order), the methods it
\* invoked, the level of the last message it logged, its outcome
R(s, reqs, calls, log, out) ==
    [sid |-> s, reqs |-> reqs, calls |-> calls, log |-> log, out |-> out]

----------------------------------------------------------------------------
(* The client's methods, as functions of the state they read *)

\* Each method is split where the code calls another method: the part that
\* runs after the call takes the callee's result as its argument.

\* FullParams without the test of line 131: sid is sent whatever it is
FullParams_AlwaysSid(s, service, params) ==
    [svc |-> service, params |-> params] @@ ("sid" :> s)

\* the query string of one GET: svc, params and, if a session id is held, sid
FullParams(s, service, params) ==
    [svc |-> service, params |-> params] @@ (IF Truthy(s) THEN ("sid" :> s) ELSE EmptyDict)

\* the exception a body that is not JSON ends in: requests >= 2.27 raises
\* requests.exceptions.JSONDecodeError, which is both a RequestException and
\* a json.JSONDecodeError, so the first matching `except` clause wins; older
\* releases raise json.JSONDecodeError alone
JsonDecodeFailure(service, resp) ==
    IF jsonErrIsReqExc
    THEN Exc("WialonRequestError", service, NoCode, "", "cause")
    ELSE Exc("WialonDataError", service, NoCode, "", resp.text)

\* ApiFailure without the test on the service: WialonAPIError for every service
ApiFailure_NoAuthError(service, data) ==
    Exc("WialonAPIError",
        service,
        data.error,
        IF "reason" \in DOMAIN data THEN data.reason ELSE "Unknown error",
        "")

\* the error raised for a body with a top-level `error` key
ApiFailure(service, data) ==
    Exc(IF service = "token/login" THEN "WialonAuthError" ELSE "WialonAPIError",
        service,
        data.error,
        IF "reason" \in DOMAIN data THEN data.reason ELSE "Unknown error",
        "")

\* the try block of _call_api and its except clauses: how one response ends
ApiOutcome(service, resp) ==
    CASE resp.kind = "transport" ->
           Raise(Exc("WialonRequestError", service, NoCode, "", "cause"))
      [] resp.kind = "nonjson" ->
           Raise(JsonDecodeFailure(service, resp))
      [] resp.kind = "nonobj" ->
           Raise(Exc("TypeError", "", NoCode, "", ""))
      [] resp.kind = "json" ->
           IF "error" \in DOMAIN resp.body
           THEN Raise(ApiFailure(service, resp.body))
           ELSE Ret(resp.body)

\* ApiResult with a second attempt after a failure
ApiResult_Retries(s, req, resp, out) ==
    R(s,
      IF out.kind = "raise"
      THEN <<[query |-> req, resp |-> resp], [query |-> req, resp |-> resp]>>
      ELSE <<[query |-> req, resp |-> resp]>>,
      <<"_call_api">>,
      IF out.kind = "ret" \/ out.exc.type = "TypeError" THEN "debug" ELSE "error",
      out)

ApiResult(s, req, resp, out) ==
    R(s, <<[query |-> req, resp |-> resp]>>, <<"_call_api">>,
      IF out.kind = "ret" \/ out.exc.type = "TypeError" THEN "debug" ELSE "error",
      out)

_call_api(s, service, params, resp) ==
    ApiResult(s, FullParams(s, service, params), resp, ApiOutcome(service, resp))

\* LoginResult without the else branch: a response without `eid` returns None
LoginResult_NoEidCheck(c) ==
    IF c.out.kind = "raise"
    THEN R(c.sid, c.reqs, <<"login">> \o c.calls, c.log, c.out)
    ELSE IF "eid" \in DOMAIN c.out.val
         THEN R(c.out.val.eid, c.reqs, <<"login">> \o c.calls, "info", Ret(c.out.val.eid))
         ELSE R(c.sid, c.reqs, <<"login">> \o c.calls, "error", Ret(None))

\* LoginResult storing the `eid` of the body before looking at how the call
\* ended: an error envelope that carries `eid` leaves a session id behind
LoginResult_StoresEidFirst(c) ==
    IF c.out.kind = "raise"
    THEN R(IF "eid" \in DOMAIN c.reqs[1].resp.body THEN c.reqs[1].resp.body.eid ELSE c.sid,
           c.reqs, <<"login">> \o c.calls, c.log, c.out)
    ELSE IF "eid" \in DOMAIN c.out.val
         THEN R(c.out.val.eid, c.reqs, <<"login">> \o c.calls, "info", Ret(c.out.val.eid))
         ELSE R(c.sid, c.reqs, <<"login">> \o c.calls, "error",
                Raise(Exc("WialonAuthError", "", NoCode, "", "eid")))

\* login after its token/login call ended as c
LoginResult(c) ==
    IF c.out.kind = "raise"
    THEN R(c.sid, c.reqs, <<"login">> \o c.calls, c.log, c.out)
    ELSE IF "eid" \in DOMAIN c.out.val
         THEN R(c.out.val.eid, c.reqs, <<"login">> \o c.calls, "info", Ret(c.out.val.eid))
         ELSE R(c.sid, c.reqs, <<"login">> \o c.calls, "error",
                Raise(Exc("WialonAuthError", "", NoCode, "", "eid")))

\* login without the reuse of a session id already held
login_NoReuse(s, tok, resp) ==
    LoginResult(_call_api(s, "token/login", [token |-> tok], resp))

login(s, tok, resp) ==
    IF Truthy(s)
    THEN R(s, <<>>, <<"login">>, "info", Ret(s))
    ELSE LoginResult(_call_api(s, "token/login", [token |-> tok], resp))

\* int(str(e).split(':')[0].replace('API Error ', '')), -1 when that is no integer
LogoutErrorCode(e) ==
    IF e.type \in {"WialonAPIError", "WialonAuthError"} /\ e.service # ""
    THEN e.code
    ELSE -1

\* LogoutResult without the last `except Exception` clause
LogoutResult_NoCatchAll(c) ==
    IF c.out.kind = "ret"
    THEN R(None, c.reqs, <<"logout">> \o c.calls, "info", Ret(None))
    ELSE IF c.out.exc.type \in WialonAPIErrors
         THEN R(c.sid, c.reqs, <<"logout">> \o c.calls,
                IF LogoutErrorCode(c.out.exc) = 0 THEN "debug" ELSE "warning",
                Ret(None))
         ELSE R(c.sid, c.reqs, <<"logout">> \o c.calls, "error", c.out)

\* logout after its core/logout call ended as c: the line after the call, or
\* one of the two except clauses
LogoutResult(c) ==
    IF c.out.kind = "ret"
    THEN R(None, c.reqs, <<"logout">> \o c.calls, "info", Ret(None))
    ELSE IF c.out.exc.type \in WialonAPIErrors
         THEN R(c.sid, c.reqs, <<"logout">> \o c.calls,
                IF LogoutErrorCode(c.out.exc) = 0 THEN "debug" ELSE "warning",
                Ret(None))
         ELSE R(c.sid, c.reqs, <<"logout">> \o c.calls, "error", Ret(None))

\* logout testing `is not None` instead of truthiness
logout_IsNotNone(s, resp) ==
    IF s # None
    THEN LogoutResult(_call_api(s, "core/logout", EmptyDict, resp))
    ELSE R(s, <<>>, <<"logout">>, "debug", Ret(None))

logout(s, resp) ==
    IF Truthy(s)
    THEN LogoutResult(_call_api(s, "core/logout", EmptyDict, resp))
    ELSE R(s, <<>>, <<"logout">>, "debug", Ret(None))

\* EnsureSidResult swallowing the failure of the login
EnsureSidResult_Swallows(l) ==
    R(l.sid, l.reqs, <<"ensure_sid">> \o l.calls, l.log, Ret(None))

\* ensure_sid after its login ended as l
EnsureSidResult(l) ==
    R(l.sid, l.reqs, <<"ensure_sid">> \o l.calls, l.log,
      IF l.out.kind = "raise" THEN l.out ELSE Ret(None))

ensure_sid(s, tok, resp) ==
    IF ~Truthy(s)
    THEN EnsureSidResult(login(s, tok, resp))
    ELSE R(s, <<>>, <<"ensure_sid">>, "", Ret(None))

\* the list comprehension of line 234 and one element of it
Unit(item) == [nombre |-> item.nm, id |-> item.id]

\* the list built in reverse order
Unidades_Reversed(items) == [i \in 1..Len(items) |-> Unit(items[Len(items) + 1 - i])]

Unidades(items) == [i \in 1..Len(items) |-> Unit(items[i])]

\* GetUnitIdsResult forgetting the session id when the search fails
GetUnitIdsResult_DropsSession(e, c) ==
    IF c.out.kind = "raise"
    THEN R(None, e.reqs \o c.reqs, <<"get_unit_ids">> \o e.calls \o c.calls, c.log, c.out)
    ELSE IF "items" \in DOMAIN c.out.val
         THEN IF \A i \in 1..Len(c.out.val.items) : {"nm", "id"} \subseteq DOMAIN c.out.val.items[i]
              THEN R(c.sid, e.reqs \o c.reqs, <<"get_unit_ids">> \o e.calls \o c.calls, "debug",
                     Ret(Unidades(c.out.val.items)))
              ELSE R(c.sid, e.reqs \o c.reqs, <<"get_unit_ids">> \o e.calls \o c.calls, "debug",
                     Raise(Exc("KeyError", "", NoCode, "", "nm")))
         ELSE R(c.sid, e.reqs \o c.reqs, <<"get_unit_ids">> \o e.calls \o c.calls, "error",
                Raise(Exc("WialonDataError", "", NoCode, "", "items")))

\* get_unit_ids after ensure_sid ended as e and core/search_items as c
GetUnitIdsResult(e, c) ==
    IF c.out.kind = "raise"
    THEN R(c.sid, e.reqs \o c.reqs, <<"get_unit_ids">> \o e.calls \o c.calls, c.log, c.out)
    ELSE IF "items" \in DOMAIN c.out.val
         THEN IF \A i \in 1..Len(c.out.val.items) : {"nm", "id"} \subseteq DOMAIN c.out.val.items[i]
              THEN R(c.sid, e.reqs \o c.reqs, <<"get_unit_ids">> \o e.calls \o c.calls, "debug",
                     Ret(Unidades(c.out.val.items)))
              ELSE R(c.sid, e.reqs \o c.reqs, <<"get_unit_ids">> \o e.calls \o c.calls, "debug",
                     Raise(Exc("KeyError", "", NoCode, "", "nm")))
         ELSE R(c.sid, e.reqs \o c.reqs, <<"get_unit_ids">> \o e.calls \o c.calls, "error",
                Raise(Exc("WialonDataError", "", NoCode, "", "items")))

params_search(unit_name_mask) ==
    [spec |-> [itemsType |-> "avl_unit", propName |-> "sys_name",
               propValueMask |-> unit_name_mask, sortType |-> "sys_name"],
     force |-> 1, flags |-> 1, from |-> 0, to |-> 0]

\* get_unit_ids after ensure_sid ended as e
GetUnitIdsSearch(e, unit_name_mask, resp) ==
    IF e.out.kind = "raise"
    THEN R(e.sid, e.reqs, <<"get_unit_ids">> \o e.calls, e.log, e.out)
    ELSE GetUnitIdsResult(e, _call_api(e.sid, "core/search_items", params_search(unit_name_mask), resp))

get_unit_ids(s, tok, unit_name_mask, loginResp, resp) ==
    GetUnitIdsSearch(ensure_sid(s, tok, loginResp), unit_name_mask, resp)

\* float(x) for the values cnm_km takes: defined on numbers and numeric strings
FloatOk(x) == x.t \in {"num", "str"}
Float(x) == [t |-> "float", v |-> x.v]

\* GetUnitMileageResult treating a missing counter like get_unit_ids treats
\* a missing `items`: it raises WialonDataError
GetUnitMileageResult_MissingRaises(e, c) ==
    IF c.out.kind = "raise"
    THEN R(c.sid, e.reqs \o c.reqs, <<"get_unit_mileage">> \o e.calls \o c.calls, c.log, c.out)
    ELSE IF "item" \in DOMAIN c.out.val /\ "cnm_km" \in DOMAIN c.out.val.item
         THEN IF FloatOk(c.out.val.item.cnm_km)
              THEN R(c.sid, e.reqs \o c.reqs, <<"get_unit_mileage">> \o e.calls \o c.calls,
                     "debug", Ret(Float(c.out.val.item.cnm_km)))
              ELSE R(c.sid, e.reqs \o c.reqs, <<"get_unit_mileage">> \o e.calls \o c.calls,
                     "debug", Raise(Exc("ValueError", "", NoCode, "", "float")))
         ELSE R(c.sid, e.reqs \o c.reqs, <<"get_unit_mileage">> \o e.calls \o c.calls,
                "error", Raise(Exc("WialonDataError", "", NoCode, "", "cnm_km")))

\* get_unit_mileage after ensure_sid ended as e and core/search_item as c
GetUnitMileageResult(e, c) ==
    IF c.out.kind = "raise"
    THEN R(c.sid, e.reqs \o c.reqs, <<"get_unit_mileage">> \o e.calls \o c.calls, c.log, c.out)
    ELSE IF "item" \in DOMAIN c.out.val /\ "cnm_km" \in DOMAIN c.out.val.item
         THEN IF FloatOk(c.out.val.item.cnm_km)
              THEN R(c.sid, e.reqs \o c.reqs, <<"get_unit_mileage">> \o e.calls \o c.calls,
                     "debug", Ret(Float(c.out.val.item.cnm_km)))
              ELSE R(c.sid, e.reqs \o c.reqs, <<"get_unit_mileage">> \o e.calls \o c.calls,
                     "debug", Raise(Exc("ValueError", "", NoCode, "", "float")))
         ELSE R(c.sid, e.reqs \o c.reqs, <<"get_unit_mileage">> \o e.calls \o c.calls,
                "warning", Ret(None))

params_get_item(item_id) == [id |-> item_id, flags |-> 8192]

\* get_unit_mileage after ensure_sid ended as e
GetUnitMileageSearch(e, item_id, resp) ==
    IF e.out.kind = "raise"
    THEN R(e.sid, e.reqs, <<"get_unit_mileage">> \o e.calls, e.log, e.out)
    ELSE GetUnitMileageResult(e, _call_api(e.sid, "core/search_item", params_get_item(item_id), resp))

get_unit_mileage(s, tok, item_id, loginResp, resp) ==
    GetUnitMileageSearch(ensure_sid(s, tok, loginResp), item_id, resp)

\* __enter__ after its login ended as l: return self
EnterResult(l) ==
    R(l.sid, l.reqs, <<"__enter__">> \o l.calls, l.log,
      IF l.out.kind = "raise" THEN l.out ELSE Ret("self"))

__enter__(s, tok, resp) == EnterResult(login(s, tok, resp))

\* ExitResult returning True, which suppresses the exception of the block
ExitResult_ReturnsTrue(l) ==
    R(l.sid, l.reqs, <<"__exit__">> \o l.calls, l.log,
      IF l.out.kind = "raise" THEN l.out ELSE Ret("True"))

\* __exit__ after its logout ended as l: fall off the end, returning None
ExitResult(l) ==
    R(l.sid, l.reqs, <<"__exit__">> \o l.calls, l.log,
      IF l.out.kind = "raise" THEN l.out ELSE Ret(None))

__exit__(s, resp) == ExitResult(logout(s, resp))

\* the `with` statement once __exit__ ended as x, for a block that ended with
\* blockExc (NoExc: normally): the block's exception propagates unless
\* __exit__ returned a true value
Released(x, blockExc) ==
    R(x.sid, x.reqs, x.calls, x.log,
      IF x.out.kind = "raise" THEN x.out
      ELSE IF blockExc # NoExc /\ ~Truthy(x.out.val) THEN Raise(blockExc)
      ELSE Ret(None))

WithRelease(s, blockExc, resp) == Released(__exit__(s, resp), blockExc)

\* __init__ without the test of the token
__init___NoTokenCheck(tok, url) ==
    [ok |-> TRUE, token |-> tok, sid |-> None,
     base_url |-> IF Truthy(url) THEN url ELSE DEFAULT_BASE_URL, log |-> "info",
     out |-> Ret("self")]

\* __init__: the fields of the new object, or ValueError for a falsy token
__init__(tok, url) ==
    IF ~Truthy(tok)
    THEN [ok |-> FALSE, token |-> None, sid |-> None, base_url |-> None, log |-> "error",
          out |-> Raise(Exc("ValueError", "", NoCode, "", "token"))]
    ELSE [ok |-> TRUE, token |-> tok, sid |-> None,
          base_url |-> IF Truthy(url) THEN url ELSE DEFAULT_BASE_URL, log |-> "info",
          out |-> Ret("self")]

----------------------------------------------------------------------------
(* State machine: a caller drives one client through its public interface *)

\* the constructor's arguments are remembered; NoArgs stands for those of
\* every other operation, which its requests show
NoArgs == [token |-> None, base_url |-> None]

\* history: what the operation that just ran was called on, sent and produced
OpRecord(op, r, blockExc) ==
    [op |-> op, before |-> [sid |-> sid, token |-> token, base_url |-> base_url],
     args |-> NoArgs,
     reqs |-> r.reqs, calls |-> r.calls, log |-> r.log, out |-> r.out,
     blockExc |-> blockExc]

\* what is remembered of the operation before the last one: for a login, how
\* many requests it sent and how it ended
Summary(rec) ==
    IF rec.op = "login"
    THEN [op |-> rec.op, nreq |-> Len(rec.reqs), kind |-> rec.out.kind]
    ELSE [op |-> "other", nreq |-> 0, kind |-> "ret"]

NoOp == [op |-> "none", before |-> [sid |-> None, token |-> None, base_url |-> None],
         args |-> NoArgs,
         reqs |-> <<>>, calls |-> <<>>, log |-> "", out |-> Ret(None), blockExc |-> NoExc]

\* exceptions a `with` block of the caller can end with, besides those of the client
BlockExcs == {Exc("RuntimeError", "", NoCode, "", "block")}

\* the command-line run before it starts: nothing read from the environment,
\* no unit found, no exception pending, nothing sent, no exit status (-1)
RunIdle ==
    [pc |-> "start", env |-> NoArgs, units |-> <<>>, i |-> 1, unavailable |-> 0,
     failed |-> "", exc |-> NoExc, log |-> <<>>, code |-> -1]

Init ==
    /\ run = RunIdle
    /\ constructed = FALSE
    /\ token = None
    /\ base_url = None
    /\ sid = None
    /\ scope = "out"
    /\ jsonErrIsReqExc \in BOOLEAN
    /\ last = NoOp
    /\ prev = Summary(NoOp)

\* a method ran to its end (returned or raised) leaving session id r.sid
Finish(op, r, blockExc) ==
    /\ sid' = r.sid
    /\ last' = OpRecord(op, r, blockExc)
    /\ prev' = Summary(last)
    /\ UNCHANGED <<constructed, token, base_url, jsonErrIsReqExc>>

\* the constructor returned or raised as o
Constructed(tok, url, o) ==
    /\ constructed' = o.ok
    /\ token' = o.token
    /\ base_url' = o.base_url
    /\ sid' = o.sid
    /\ last' = [op |-> "__init__",
                before |-> [sid |-> sid, token |-> token, base_url |-> base_url],
                args |-> [token |-> tok, base_url |-> url],
                reqs |-> <<>>, calls |-> <<"__init__">>, log |-> o.log,
                out |-> o.out, blockExc |-> NoExc]
    /\ prev' = Summary(last)
    /\ UNCHANGED <<scope, jsonErrIsReqExc>>

Construct(tok, url) ==
    /\ ~constructed
    /\ Constructed(tok, url, __init__(tok, url))
    /\ UNCHANGED run

Login(resp) ==
    /\ constructed
    /\ Finish("login", login(sid, token, resp), NoExc)
    /\ UNCHANGED <<scope, run>>

Logout(resp) ==
    /\ constructed
    /\ Finish("logout", logout(sid, resp), NoExc)
    /\ UNCHANGED <<scope, run>>

EnsureSid(resp) ==
    /\ constructed
    /\ Finish("ensure_sid", ensure_sid(sid, token, resp), NoExc)
    /\ UNCHANGED <<scope, run>>

GetUnitIds(mask, loginResp, resp) ==
    /\ constructed
    /\ Finish("get_unit_ids", get_unit_ids(sid, token, mask, loginResp, resp), NoExc)
    /\ UNCHANGED <<scope, run>>

GetUnitMileage(item_id, loginResp, resp) ==
    /\ constructed
    /\ Finish("get_unit_mileage", get_unit_mileage(sid, token, item_id, loginResp, resp), NoExc)
    /\ UNCHANGED <<scope, run>>

\* __enter__ ended as r: the block runs only if it returned
Entered(r) ==
    /\ Finish("__enter__", r, NoExc)
    /\ scope' = IF r.out.kind = "ret" THEN "in" ELSE "out"

\* `with client:` is entered
WithEnter(resp) ==
    /\ constructed
    /\ scope = "out"
    /\ Entered(__enter__(sid, token, resp))
    /\ UNCHANGED run

\* the block ends, normally or with an exception, and the session is released
WithExit(blockExc, resp) ==
    /\ constructed
    /\ scope = "in"
    /\ Finish("__exit__", WithRelease(sid, blockExc, resp), blockExc)
    /\ scope' = "out"
    /\ UNCHANGED run

\* the private request primitive called on its own
CallApi(service, resp) ==
    /\ constructed
    /\ Finish("_call_api", _call_api(sid, service, EmptyDict, resp), NoExc)
    /\ UNCHANGED <<scope, run>>

\* the responses to the token/login request an operation sends when it is
\* called with session id s: none is consumed when a session id is held
LoginResponses(s) ==
    IF Truthy(s) THEN {[kind |-> "transport", text |-> "", body |-> EmptyDict]}
    ELSE Responses("token/login")

\* likewise for core/logout, which is sent only when a session id is held
LogoutResponses(s) ==
    IF Truthy(s) THEN Responses("core/logout")
    ELSE {[kind |-> "transport", text |-> "", body |-> EmptyDict]}

\* the responses to the data request of an operation called with session id s
\* whose lazy login is answered by loginResp: none is consumed when that
\* login fails
DataResponses(service, s, tok, loginResp) ==
    IF ensure_sid(s, tok, loginResp).out.kind = "raise"
    THEN {[kind |-> "transport", text |-> "", body |-> EmptyDict]}
    ELSE Responses(service)

Services == {"token/login", "core/logout", "core/search_items", "core/search_item"}

\* the exceptions the block can end with: its own, or the one the operation
\* it just called raised
EndOfBlock ==
    {NoExc} \cup BlockExcs \cup (IF last.out.kind = "raise" THEN {last.out.exc} ELSE {})

Next ==
    \/ \E tok \in Tokens, url \in BaseUrls : Construct(tok, url)
    \/ \E resp \in LoginResponses(sid) : Login(resp)
    \/ \E resp \in LogoutResponses(sid) : Logout(resp)
    \/ \E resp \in LoginResponses(sid) : EnsureSid(resp)
    \/ \E mask \in Masks, loginResp \in LoginResponses(sid) :
          \E resp \in DataResponses("core/search_items", sid, token, loginResp) :
             GetUnitIds(mask, loginResp, resp)
    \/ \E item_id \in UnitIds, loginResp \in LoginResponses(sid) :
          \E resp \in DataResponses("core/search_item", sid, token, loginResp) :
             GetUnitMileage(item_id, loginResp, resp)
    \/ \E resp \in LoginResponses(sid) : WithEnter(resp)
    \/ \E blockExc \in EndOfBlock, resp \in LogoutResponses(sid) : WithExit(blockExc, resp)

Spec == Init /\ [][Next]_vars

\* the same caller, which may also call the request primitive directly
NextApi ==
    \/ Next
    \/ \E service \in Services : \E resp \in Responses(service) : CallApi(service, resp)

SpecApi == Init /\ [][NextApi]_vars

----------------------------------------------------------------------------
(* The command-line run of __main__ (lines 279-330) *)

\* the response of exchange x is one the client goes on with: _call_api
\* returns it (a JSON object without `error`) and the method that asked
\* finds what it reads in it
Accepted(x) ==
    /\ x.resp.kind = "json"
    /\ "error" \notin DOMAIN x.resp.body
    /\ CASE x.query.svc = "token/login" -> "eid" \in DOMAIN x.resp.body
         [] x.query.svc = "core/search_items" ->
              /\ "items" \in DOMAIN x.resp.body
              /\ \A i \in 1..Len(x.resp.body.items) :
                    {"nm", "id"} \subseteq DOMAIN x.resp.body.items[i]
         [] x.query.svc = "core/search_item" ->
              ("item" \in DOMAIN x.resp.body /\ "cnm_km" \in DOMAIN x.resp.body.item)
                 => FloatOk(x.resp.body.item.cnm_km)
         [] OTHER -> TRUE

\* what the run remembers of the exchanges reqs: the service asked and
\* whether its response was accepted
Exchanges(reqs) ==
    [i \in 1..Len(reqs) |-> [svc |-> reqs[i].query.svc, ok |-> Accepted(reqs[i])]]

\* the except clauses of lines 316-330 with a clause for WialonDataError
\* that logs and goes on
MainExcept_DataErrorNoExit(e) ==
    CASE e.type = "WialonAuthError" -> 1
      [] e.type = "WialonRequestError" -> 1
      [] e.type = "WialonDataError" -> 0
      [] e.type = "ValueError" -> 1
      [] OTHER -> 1

\* the except clauses of lines 316-330: the exit status for exception e
MainExcept(e) ==
    CASE e.type = "WialonAuthError" -> 1
      [] e.type = "WialonRequestError" -> 1
      [] e.type = "WialonDataError" -> 1
      [] e.type = "ValueError" -> 1
      [] OTHER -> 1

\* the process ends: through an except clause if the try statement ended
\* with an exception, by reaching the end of the script otherwise
Exited(rn, out) ==
    [rn EXCEPT !.pc = "done",
               !.code = IF out.kind = "raise" THEN MainExcept(out.exc) ELSE 0]

\* the run after the token was read and found missing: exit(1) of line 287
RunWithoutToken(rn, tok, url) ==
    [rn EXCEPT !.pc = "done", !.env = [token |-> tok, base_url |-> url], !.code = 1]

\* the run after WialonClient(...) ended as o
RunAfterInit(rn, tok, url, o) ==
    IF o.out.kind = "raise"
    THEN Exited([rn EXCEPT !.env = [token |-> tok, base_url |-> url],
                           !.failed = "init", !.exc = o.out.exc], o.out)
    ELSE [rn EXCEPT !.env = [token |-> tok, base_url |-> url], !.pc = "enter"]

\* the run after __enter__ ended as r: an exception of __enter__ leaves the
\* with statement without calling __exit__
RunAfterEnter(rn, r) ==
    IF r.out.kind = "raise"
    THEN Exited([rn EXCEPT !.log = @ \o Exchanges(r.reqs),
                           !.failed = "login", !.exc = r.out.exc], r.out)
    ELSE [rn EXCEPT !.log = @ \o Exchanges(r.reqs), !.pc = "search"]

\* the run after get_unit_ids ended as r: the loop runs over the units
\* found, if any
RunAfterSearch(rn, r) ==
    IF r.out.kind = "raise"
    THEN [rn EXCEPT !.log = @ \o Exchanges(r.reqs),
                    !.failed = "search", !.exc = r.out.exc, !.pc = "release"]
    ELSE [rn EXCEPT !.log = @ \o Exchanges(r.reqs), !.units = r.out.val, !.i = 1,
                    !.pc = IF r.out.val = <<>> THEN "release" ELSE "mileage"]

\* the run after get_unit_mileage for unit i ended as r; it returned None
\* exactly when it logged its warning (lines 260-261)
RunAfterMileage(rn, r) ==
    IF r.out.kind = "raise"
    THEN [rn EXCEPT !.log = @ \o Exchanges(r.reqs),
                    !.failed = "counter", !.exc = r.out.exc, !.pc = "release"]
    ELSE [rn EXCEPT !.log = @ \o Exchanges(r.reqs), !.i = @ + 1,
                    !.unavailable = IF r.log = "warning" THEN @ + 1 ELSE @,
                    !.pc = IF rn.i = Len(rn.units) THEN "release" ELSE "mileage"]

\* the run after the with statement released the client as r
RunAfterRelease(rn, r) ==
    Exited([rn EXCEPT !.log = @ \o Exchanges(r.reqs)], r.out)

\* lines 279-290: the environment is read; without a token the process
\* exits, with one the client is constructed
MainStart(tok, url) ==
    /\ run.pc = "start"
    /\ ~constructed
    /\ IF ~Truthy(tok)
       THEN /\ run' = RunWithoutToken(run, tok, url)
            /\ UNCHANGED <<constructed, token, base_url, sid, scope, jsonErrIsReqExc, last, prev>>
       ELSE /\ Constructed(tok, url, __init__(tok, url))
            /\ run' = RunAfterInit(run, tok, url, __init__(tok, url))

EnterStep(r) ==
    /\ Entered(r)
    /\ run' = RunAfterEnter(run, r)

\* line 290: the with statement calls __enter__
MainEnter(resp) ==
    /\ run.pc = "enter"
    /\ EnterStep(__enter__(sid, token, resp))

SearchStep(r) ==
    /\ Finish("get_unit_ids", r, NoExc)
    /\ run' = RunAfterSearch(run, r)
    /\ UNCHANGED scope

\* line 293: client.get_unit_ids(nombre_unidad_mask)
MainSearch(mask, loginResp, resp) ==
    /\ run.pc = "search"
    /\ SearchStep(get_unit_ids(sid, token, mask, loginResp, resp))

MileageStep(r) ==
    /\ Finish("get_unit_mileage", r, NoExc)
    /\ run' = RunAfterMileage(run, r)
    /\ UNCHANGED scope

\* line 307: client.get_unit_mileage(unidad['id']) for the next unit
MainMileage(loginResp, resp) ==
    /\ run.pc = "mileage"
    /\ MileageStep(get_unit_mileage(sid, token, run.units[run.i].id, loginResp, resp))

ReleaseStep(r) ==
    /\ Finish("__exit__", r, run.exc)
    /\ scope' = "out"
    /\ run' = RunAfterRelease(run, r)

\* the block ended, normally or with the exception of a data operation:
\* __exit__ runs and the try statement ends
MainRelease(resp) ==
    /\ run.pc = "release"
    /\ ReleaseStep(WithRelease(sid, run.exc, resp))

NextMain ==
    \/ \E tok \in Tokens, url \in BaseUrls : MainStart(tok, url)
    \/ \E resp \in LoginResponses(sid) : MainEnter(resp)
    \/ \E mask \in Masks, loginResp \in LoginResponses(sid) :
          \E resp \in DataResponses("core/search_items", sid, token, loginResp) :
             MainSearch(mask, loginResp, resp)
    \/ \E loginResp \in LoginResponses(sid) :
          \E resp \in DataResponses("core/search_item", sid, token, loginResp) :
             MainMileage(loginResp, resp)
    \/ \E resp \in LogoutResponses(sid) : MainRelease(resp)

SpecMain == Init /\ [][NextMain]_vars

TypeOK ==
    /\ constructed \in BOOLEAN
    /\ sid \in {None} \cup Eids
    /\ scope \in {"out", "in"}
    /\ Len(last.reqs) <= 2

----------------------------------------------------------------------------
(* Properties *)

Range(q) == {q[i] : i \in 1..Len(q)}

\* the operation that just ran invoked logout() (directly or from __exit__)
\* while a session id was held
LogoutWithSession == "logout" \in Range(last.calls) /\ Truthy(last.before.sid)

\* C1: whenever logout() is called while a session id is held, the session id
\* is cleared once the core/logout request has been attempted, whatever the
\* remote outcome: afterwards the client holds no session id.
C1_LogoutAlwaysClearsSid == LogoutWithSession => ~Truthy(sid)

\* C2: logout() never raises to its caller, whatever the outcome of the
\* core/logout request (error envelope with code 0 or any other code,
\* transport failure, a body that is not JSON or not an object).
C2_LogoutNeverRaises == last.op = "logout" => last.out = Ret(None)

\* a logout whose request ended in an exception that is not a WialonAPIError
C2_Witness ==
    /\ last.op = "logout"
    /\ Len(last.reqs) = 1
    /\ last.reqs[1].resp.kind = "nonobj"
    /\ last.out.kind = "ret"

\* two login() calls in a row, the first of which sent a token/login request
TwoLogins == prev.op = "login" /\ last.op = "login"

\* C3 as stated: login() called twice in a row performs exactly one network
\* call, the second call being a no-op that returns the session id held, for
\* every response the server can give to the first call.
C3_SecondLoginIsAlwaysNoOp ==
    (TwoLogins /\ prev.nreq = 1) => (last.reqs = <<>> /\ last.out = Ret(last.before.sid))

\* C3 as amended: the second of two login() calls in a row is a no-op that
\* returns the session id held exactly when the first call left a non-empty
\* session id (one network call in all when the first call sent one);
\* when the first call failed, or stored an empty eid, the second call sends
\* its own token/login request.
C3_SecondLoginReusesHeldSid ==
    TwoLogins =>
        IF Truthy(last.before.sid)
        THEN /\ last.reqs = <<>>
             /\ last.out = Ret(last.before.sid)
             /\ sid = last.before.sid
             /\ prev.kind = "ret"
        ELSE /\ Len(last.reqs) = 1
             /\ last.reqs[1].query.svc = "token/login"
             /\ prev.nreq = 1

\* a first login that obtained a session id followed by a second that reused it
C3_Witness ==
    /\ TwoLogins
    /\ prev.nreq = 1
    /\ prev.kind = "ret"
    /\ last.reqs = <<>>
    /\ last.out.val = "s1"

\* C4: logout() on a client that holds no session id performs no network call
\* and leaves the session id, the token and the base URL unchanged.
C4_LogoutWithoutSessionIsNoOp ==
    (last.op = "logout" /\ ~Truthy(last.before.sid)) =>
        /\ last.reqs = <<>>
        /\ sid = last.before.sid
        /\ token = last.before.token
        /\ base_url = last.before.base_url

\* a logout on a client whose session id is the empty eid of an earlier login
C4_Witness ==
    /\ last.op = "logout"
    /\ last.before.sid = ""
    /\ last.reqs = <<>>
    /\ sid = ""

DataOps == {"get_unit_ids", "get_unit_mileage"}

DataService(op) == IF op = "get_unit_ids" THEN "core/search_items" ELSE "core/search_item"

\* C5: every request for a service other than token/login carries a non-empty
\* session id, and a data operation called with no session id sends
\* token/login first and only then its own request.
C5_LazyAuthentication ==
    /\ \A i \in 1..Len(last.reqs) :
          last.reqs[i].query.svc # "token/login" =>
              /\ "sid" \in DOMAIN last.reqs[i].query
              /\ Truthy(last.reqs[i].query.sid)
    /\ (last.op \in DataOps /\ ~Truthy(last.before.sid)) =>
          /\ Len(last.reqs) >= 1
          /\ last.reqs[1].query.svc = "token/login"
          /\ Len(last.reqs) = 2 => last.reqs[2].query.svc = DataService(last.op)

\* C6: the scoped session calls login() on acquisition and logout() on
\* release, whether the block ended normally or raised, and an exception of
\* the block reaches the caller after the release.
C6_ScopedSession ==
    /\ last.op = "__enter__" =>
          /\ last.calls[2] = "login"
          /\ scope = (IF last.out.kind = "ret" THEN "in" ELSE "out")
    /\ last.op = "__exit__" =>
          /\ last.calls[2] = "logout"
          /\ scope = "out"
          /\ last.out = (IF last.blockExc = NoExc THEN Ret(None) ELSE Raise(last.blockExc))

\* a block that raised, whose release sent core/logout and got a failure
C6_Witness ==
    /\ last.op = "__exit__"
    /\ last.blockExc.type = "RuntimeError"
    /\ Len(last.reqs) = 1
    /\ last.reqs[1].resp.kind = "transport"
    /\ last.out.kind = "raise"

\* the exception _call_api is to raise for a body with an `error` key
ExpectedApiError(x) ==
    Exc(IF x.query.svc = "token/login" THEN "WialonAuthError" ELSE "WialonAPIError",
        x.query.svc,
        x.resp.body.error,
        IF "reason" \in DOMAIN x.resp.body THEN x.resp.body.reason ELSE "Unknown error",
        "")

HasErrorKey(x) == x.resp.kind = "json" /\ "error" \in DOMAIN x.resp.body

\* C7: for every service, a parsed body with a top-level `error` key makes the
\* request primitive fail with WialonAuthError if the service is token/login
\* and with WialonAPIError otherwise, carrying the error code, the service
\* and the reason (or the fallback text), also when the payload key is there.
C7_ErrorEnvelope ==
    \A i \in 1..Len(last.reqs) :
        HasErrorKey(last.reqs[i]) =>
            /\ i = Len(last.reqs)
            /\ "logout" \notin Range(last.calls) => last.out = Raise(ExpectedApiError(last.reqs[i]))

\* token/login answered by an error envelope that also carries `eid`
C7_Witness ==
    /\ last.op = "_call_api"
    /\ last.reqs[1].query.svc = "token/login"
    /\ HasErrorKey(last.reqs[1])
    /\ "eid" \in DOMAIN last.reqs[1].resp.body
    /\ "reason" \notin DOMAIN last.reqs[1].resp.body
    /\ last.out.exc.type = "WialonAuthError"

\* C8: the request primitive fails with WialonRequestError naming the service
\* on a transport failure, with WialonDataError carrying the raw body on a
\* body that is not JSON, and returns a body without `error` unchanged.
C8_OutcomeClassification ==
    last.op = "_call_api" =>
        /\ last.reqs[1].resp.kind = "transport" =>
              /\ last.out.kind = "raise"
              /\ last.out.exc.type = "WialonRequestError"
              /\ last.out.exc.service = last.reqs[1].query.svc
        /\ last.reqs[1].resp.kind = "nonjson" =>
              /\ last.out.kind = "raise"
              /\ last.out.exc.type = "WialonDataError"
              /\ last.out.exc.text = last.reqs[1].resp.text
        /\ (last.reqs[1].resp.kind = "json" /\ ~HasErrorKey(last.reqs[1])) =>
              last.out = Ret(last.reqs[1].resp.body)

\* a login() called with no session id whose response has no `error` key
LoginAnswered ==
    /\ last.op = "login"
    /\ ~Truthy(last.before.sid)
    /\ last.reqs[1].resp.kind = "json"
    /\ ~HasErrorKey(last.reqs[1])

\* C9: login() with no session id held stores and returns exactly the `eid`
\* of a response without `error`, and fails with WialonAuthError when such a
\* response has no `eid`.
C9_LoginStoresEid ==
    LoginAnswered =>
        IF "eid" \in DOMAIN last.reqs[1].resp.body
        THEN /\ sid = last.reqs[1].resp.body.eid
             /\ last.out = Ret(last.reqs[1].resp.body.eid)
        ELSE /\ last.out.kind = "raise"
             /\ last.out.exc.type = "WialonAuthError"
             /\ sid = last.before.sid

\* a login that stored the eid "s2"
C9_Witness ==
    /\ LoginAnswered
    /\ "eid" \in DOMAIN last.reqs[1].resp.body
    /\ last.reqs[1].resp.body.eid = "s2"
    /\ sid = "s2"

\* the response to the core/search_items request of the last get_unit_ids
SearchAnswer == last.reqs[Len(last.reqs)]

\* a get_unit_ids whose search request got a response without `error`
SearchAnswered ==
    /\ last.op = "get_unit_ids"
    /\ last.reqs # <<>>
    /\ SearchAnswer.query.svc = "core/search_items"
    /\ SearchAnswer.resp.kind = "json"
    /\ ~HasErrorKey(SearchAnswer)

WellFormed(items) == \A i \in 1..Len(items) : {"nm", "id"} \subseteq DOMAIN items[i]

\* C10: get_unit_ids returns one unit {nombre: nm, id: id} per record of
\* `items`, in the order and number the server gave; an empty `items` gives
\* an empty list; a response without `items` fails with WialonDataError.
C10_UnitsInServerOrder ==
    SearchAnswered =>
        IF "items" \in DOMAIN SearchAnswer.resp.body
        THEN WellFormed(SearchAnswer.resp.body.items) =>
                /\ last.out.kind = "ret"
                /\ Len(last.out.val) = Len(SearchAnswer.resp.body.items)
                /\ \A i \in 1..Len(last.out.val) :
                      /\ last.out.val[i].nombre = SearchAnswer.resp.body.items[i].nm
                      /\ last.out.val[i].id = SearchAnswer.resp.body.items[i].id
        ELSE /\ last.out.kind = "raise"
             /\ last.out.exc.type = "WialonDataError"

\* the units B, A returned in the order the server listed them
C10_Witness ==
    /\ SearchAnswered
    /\ last.out.kind = "ret"
    /\ Len(last.out.val) = 2
    /\ last.out.val[1].nombre = "B"
    /\ last.out.val[2].nombre = "A"


\* the response to the core/search_item request of the last get_unit_mileage
ItemAnswer == last.reqs[Len(last.reqs)]

\* a get_unit_mileage whose search request got a response without `error`
ItemAnswered ==
    /\ last.op = "get_unit_mileage"
    /\ last.reqs # <<>>
    /\ ItemAnswer.query.svc = "core/search_item"
    /\ ItemAnswer.resp.kind = "json"
    /\ ~HasErrorKey(ItemAnswer)

HasCounter(body) == "item" \in DOMAIN body /\ "cnm_km" \in DOMAIN body.item

\* C11: get_unit_mileage returns the value of item.cnm_km (a number or a
\* numeric string, as a float) when the response has it, and returns None
\* without raising when the response lacks `item` or its item lacks `cnm_km`.
C11_CounterOrNone ==
    ItemAnswered =>
        IF HasCounter(ItemAnswer.resp.body)
        THEN ItemAnswer.resp.body.item.cnm_km.t \in {"num", "str"} =>
                /\ last.out.kind = "ret"
                /\ last.out.val.t = "float"
                /\ last.out.val.v = ItemAnswer.resp.body.item.cnm_km.v
        ELSE /\ last.out.kind = "ret"
             /\ last.out.val = None
             /\ last.log = "warning"

\* a response {"item": {}}: the item is there, its counter is not
C11_Witness ==
    /\ ItemAnswered
    /\ "item" \in DOMAIN ItemAnswer.resp.body
    /\ ~HasCounter(ItemAnswer.resp.body)
    /\ last.out.kind = "ret"


\* C14: a login that fails (transport failure, body that is not JSON, error
\* envelope, response without `eid`) leaves the client without a session id,
\* and the next login() sends a new token/login request.
C14_FailedLoginLeavesUnauthenticated ==
    /\ (last.op = "login" /\ last.out.kind = "raise") =>
          /\ Len(last.reqs) = 1
          /\ sid = last.before.sid
          /\ ~Truthy(sid)
    /\ (TwoLogins /\ prev.kind = "raise") =>
          /\ Len(last.reqs) = 1
          /\ last.reqs[1].query.svc = "token/login"
          /\ "sid" \notin DOMAIN last.reqs[1].query

\* a login after a failed login, itself answered by an error envelope that
\* carries an `eid`
C14_Witness ==
    /\ TwoLogins
    /\ prev.kind = "raise"
    /\ HasErrorKey(last.reqs[1])
    /\ "eid" \in DOMAIN last.reqs[1].resp.body
    /\ last.out.kind = "raise"
    /\ sid = None


\* the token/login exchange x did not yield a session id
LoginFailed(x) ==
    \/ x.resp.kind # "json"
    \/ HasErrorKey(x)
    \/ "eid" \notin DOMAIN x.resp.body

\* the error login() raises for the failed exchange x
IsLoginError(x, e) ==
    CASE x.resp.kind = "transport" ->
           e = Exc("WialonRequestError", "token/login", NoCode, "", "cause")
      [] x.resp.kind = "nonjson" ->
           /\ e.type \in {"WialonRequestError", "WialonDataError"}
           /\ e.service = "token/login"
      [] x.resp.kind = "nonobj" -> e.type = "TypeError"
      [] HasErrorKey(x) -> e = ExpectedApiError(x)
      [] OTHER -> e.type = "WialonAuthError" /\ e.service = ""

\* a data operation called with no session id whose lazy login failed
LazyLoginFailed ==
    /\ last.op \in DataOps
    /\ ~Truthy(last.before.sid)
    /\ last.reqs # <<>>
    /\ LoginFailed(last.reqs[1])

\* C15: when get_unit_ids or get_unit_mileage is called with no session id
\* and the lazy login fails, the data request is never sent and the error of
\* the login reaches the caller as it was raised.
C15_LazyLoginFailurePropagates ==
    /\ (last.op \in DataOps /\ ~Truthy(last.before.sid)) => last.reqs # <<>>
    /\ LazyLoginFailed =>
          /\ Len(last.reqs) = 1
          /\ last.reqs[1].query.svc = "token/login"
          /\ last.out.kind = "raise"
          /\ IsLoginError(last.reqs[1], last.out.exc)
          /\ last.reqs[1].resp.kind # "nonobj" =>
                last.out.exc.type \in {"WialonAuthError", "WialonRequestError", "WialonDataError"}
          /\ sid = last.before.sid

\* get_unit_mileage whose lazy login got a response without `eid`
C15_Witness ==
    /\ LazyLoginFailed
    /\ last.op = "get_unit_mileage"
    /\ last.reqs[1].resp.kind = "json"
    /\ ~HasErrorKey(last.reqs[1])
    /\ last.out.exc.type = "WialonAuthError"


\* how many requests of the last operation went to service svc
Count(svc) == Cardinality({i \in DOMAIN last.reqs : last.reqs[i].query.svc = svc})

\* the exchange x made its operation fail
ExchangeFailed(x) ==
    \/ x.resp.kind # "json"
    \/ HasErrorKey(x)
    \/ x.query.svc = "token/login" /\ "eid" \notin DOMAIN x.resp.body

\* C16: there is no retry: login and logout send at most one request, a
\* data operation at most one token/login and at most one data request and
\* nothing else, and a failed request is the last one of its operation.
C16_NoRetry ==
    /\ last.op = "login" => Len(last.reqs) = Count("token/login") /\ Len(last.reqs) <= 1
    /\ last.op = "logout" => Len(last.reqs) = Count("core/logout") /\ Len(last.reqs) <= 1
    /\ last.op \in DataOps =>
          /\ Count("token/login") <= 1
          /\ Count(DataService(last.op)) <= 1
          /\ Len(last.reqs) = Count("token/login") + Count(DataService(last.op))
    /\ \A i \in DOMAIN last.reqs : ExchangeFailed(last.reqs[i]) => i = Len(last.reqs)

\* a data operation whose lazy login succeeded and whose data request failed
C16_Witness ==
    /\ last.op \in DataOps
    /\ Len(last.reqs) = 2
    /\ ~ExchangeFailed(last.reqs[1])
    /\ ExchangeFailed(last.reqs[2])
    /\ last.out.kind = "raise"


\* the session id the client holds when the i-th request of the last
\* operation is sent: the one it was called with, or the eid the token/login
\* exchange just before stored
HeldAt(i) ==
    IF /\ i > 1
       /\ last.reqs[i - 1].query.svc = "token/login"
       /\ ~ExchangeFailed(last.reqs[i - 1])
    THEN last.reqs[i - 1].resp.body.eid
    ELSE last.before.sid

\* C17: every request carries `sid` exactly when the client holds a
\* (non-empty) session id at the moment the request is sent, and the value
\* carried is the session id held then.
C17_SidCarriedIffHeld ==
    \A i \in DOMAIN last.reqs :
       /\ "sid" \in DOMAIN last.reqs[i].query <=> Truthy(HeldAt(i))
       /\ "sid" \in DOMAIN last.reqs[i].query => last.reqs[i].query.sid = HeldAt(i)

\* a data operation whose login request went out without `sid` and whose
\* data request carried the eid that login returned
C17_Witness ==
    /\ last.op \in DataOps
    /\ Len(last.reqs) = 2
    /\ "sid" \notin DOMAIN last.reqs[1].query
    /\ "sid" \in DOMAIN last.reqs[2].query
    /\ last.reqs[2].query.sid = "s1"
    /\ sid = "s1"


\* the last operation was called on a constructed client
OnClient == last.op \notin {"none", "__init__"}

\* the session id was set by a login: no session id was held, token/login was
\* answered with a body carrying `eid` and no error, and that eid is held now
SetByLogin ==
    /\ "login" \in Range(last.calls)
    /\ ~Truthy(last.before.sid)
    /\ last.reqs # <<>>
    /\ last.reqs[1].query.svc = "token/login"
    /\ ~ExchangeFailed(last.reqs[1])
    /\ sid = last.reqs[1].resp.body.eid

\* the session id was cleared by a logout that had one to close
ClearedByLogout ==
    /\ "logout" \in Range(last.calls)
    /\ Truthy(last.before.sid)
    /\ sid = None

\* C19: the session id changes only when a login whose response carries
\* `eid` sets it or a logout clears it; the request primitive and the two
\* data operations leave a session id that is held as it is, whatever their
\* outcome; token and base URL do not change after construction.
C19_SessionIdFrame ==
    OnClient =>
       /\ sid # last.before.sid => SetByLogin \/ ClearedByLogout
       /\ last.op = "_call_api" => sid = last.before.sid
       /\ (last.op \in DataOps /\ Truthy(last.before.sid)) => sid = last.before.sid
       /\ token = last.before.token
       /\ base_url = last.before.base_url

\* get_unit_ids called with a session id and answered by the API error that
\* reports an invalid session
C19_Witness ==
    /\ last.op = "get_unit_ids"
    /\ Truthy(last.before.sid)
    /\ Len(last.reqs) = 1
    /\ HasErrorKey(last.reqs[1])
    /\ last.reqs[1].resp.body.error = 1
    /\ sid = last.before.sid


\* C12: constructing the client with an empty or absent token raises
\* ValueError (the configuration error) and sends nothing; with a non-empty
\* token it yields a client with that token, no session id, and the base URL
\* given, or the vendor default when none (or an empty one) is given.
C12_Construction ==
    last.op = "__init__" =>
       /\ last.reqs = <<>>
       /\ IF last.args.token \in {None, ""}
          THEN /\ last.out.kind = "raise"
               /\ last.out.exc.type = "ValueError"
               /\ ~constructed
          ELSE /\ last.out.kind = "ret"
               /\ constructed
               /\ token = last.args.token
               /\ sid = None
               /\ base_url = IF last.args.base_url \in {None, ""}
                             THEN DEFAULT_BASE_URL
                             ELSE last.args.base_url

\* the constructor was called with an empty token and raised
C12_Witness ==
    /\ last.op = "__init__"
    /\ last.args.token = ""
    /\ last.out.kind = "raise"
    /\ ~constructed


\* the command-line run ended after reading a token from the environment
RunDone == run.pc = "done" /\ Truthy(run.env.token)

\* C13: the command-line run exits non-zero whenever login, the unit search
\* or a counter lookup raised (whatever the error), and exits zero
\* otherwise, also when no unit matched and when counters were unavailable;
\* a run without a token exits non-zero before anything is sent.
C13_ExitStatus ==
    /\ RunDone => (run.code # 0 <=> run.failed \in {"login", "search", "counter"})
    /\ RunDone => (run.failed = "" <=> run.exc = NoExc)
    /\ (RunDone /\ run.failed = "") => run.i = Len(run.units) + 1
    /\ (run.pc = "done" /\ ~Truthy(run.env.token)) => run.code = 1 /\ run.log = <<>>

\* the second counter lookup of a run failed after the first one returned
\* no counter, and the run exited with status 1
C13_Witness ==
    /\ RunDone
    /\ run.failed = "counter"
    /\ run.i = 2
    /\ run.unavailable = 1
    /\ run.code = 1

\* how many requests of the run went to service svc
RunCount(svc) == Cardinality({i \in DOMAIN run.log : run.log[i].svc = svc})

\* every response the server gave during the run was one the client accepts
AllAccepted == \A i \in DOMAIN run.log : run.log[i].ok

\* C18: in a scoped session in which every response is well-formed (the
\* search, then one counter lookup per unit found), nothing raises, exactly
\* one token/login request is sent and it is the first request, exactly one
\* core/logout request is sent and it is the last, and no session id is
\* held afterwards.
C18_WellFormedSessionRoundTrip ==
    (RunDone /\ AllAccepted) =>
       /\ run.failed = ""
       /\ run.code = 0
       /\ RunCount("token/login") = 1
       /\ run.log[1].svc = "token/login"
       /\ RunCount("core/logout") = 1
       /\ run.log[Len(run.log)].svc = "core/logout"
       /\ RunCount("core/search_item") = Len(run.units)
       /\ sid = None

====
